---- MODULE Spec2Model ----
(***************************************************************************)
(* Model of src/foreground.py (NetworkMonitor): two collector threads      *)
(* (update_bandwidth, update_latency) that write their metric's record     *)
(* field by field, and the main thread's render loop (run, draw_screen,    *)
(* draw_panel) that reads the records while drawing.  Every step is one    *)
(* access of the shared state, as the interpreter interleaves the threads. *)
(* The geometry of a frame (draw_borders, the title, the four draw_panel   *)
(* calls, the timestamp) does not depend on the interleaving: FrameSpec    *)
(* draws one frame, call by call, on a terminal of every size.             *)
(***************************************************************************)
EXTENDS Integers, Sequences, FiniteSets, TLC

\* ------------------------------------------------------------------ values

\* The five data containers of __init__ (lines 28-32).
Metrics == {"bandwidth", "latency", "stability", "routing", "protocol"}

\* The threads start_update_threads starts, in list order (lines 123-127).
Threads == <<"bandwidth", "latency">>

Collectors == {Threads[i] : i \in 1..Len(Threads)}

\* The panels draw_screen draws, in call order (lines 111-114).
Panels == <<"bandwidth", "latency", "stability", "routing">>

\* Python's None, the initial "data" of every container.
None == "None"

\* What a completed probe invocation may return (result.stdout and
\* result.returncode): a clean run, and a run that exits non-zero after
\* printing its report.
ProbeResults ==
    { [stdout |-> "3 packets transmitted, 3 received", returncode |-> 0],
      [stdout |-> "3 packets transmitted, 0 received", returncode |-> 1] }

Outputs == {r.stdout : r \in ProbeResults}

\* str(e) of an exception subprocess.run may raise.
ErrorMessages == {"[Errno 2] No such file or directory"}

\* f"Error: {str(e)}" (lines 68 and 80).
ErrorStatus(msg) ==
    CASE msg = "[Errno 2] No such file or directory"
           -> "Error: [Errno 2] No such file or directory"
      [] OTHER -> "Error: "

Statuses ==
    {"Initializing...", "Updating...", "OK"} \cup {ErrorStatus(m) : m \in ErrorMessages}

\* self.spinner (line 24), the ten braille glyphs by code point.
spinner ==
    <<"U+280B", "U+2819", "U+2839", "U+2838", "U+283C",
      "U+2834", "U+2826", "U+2827", "U+2807", "U+280F">>

\* time.sleep(300) of update_bandwidth and time.sleep(5) of update_latency.
BandwidthSleep == 300

LatencySleep == 5

SleepSeconds(c) == IF c = "bandwidth" THEN BandwidthSleep ELSE LatencySleep

\* No probe invocation made yet in this cycle.
NoInvocation == [kind |-> "none", stdout |-> None, returncode |-> 0, msg |-> ""]

\* No draw_panel call was made by the last drawing step.
NoArgs ==
    [title |-> "", status |-> "", data |-> None,
     y |-> 0, x |-> 0, height |-> 0, width |-> 0]

\* The locals of one draw_panel call before any of them is assigned.
NoDraw == [title |-> "", spin |-> "", color |-> "", tag |-> "", has |-> FALSE, body |-> None]

\* ------------------------------------------------------------------- state

VARIABLES
    running,      \* self.running
    status,       \* status[m]: self.<m>_data["status"]
    data,         \* data[m]:   self.<m>_data["data"]
    spinner_idx,  \* self.spinner_idx, 0-based
    pc,           \* pc[c]: the line collector thread c is about to execute
    invocation,   \* invocation[c]: what the subprocess.run of c's cycle did
    cycle_data,   \* cycle_data[c]: data[c] when c's cycle began (between
                  \* cycles: the data the next cycle begins with)
    slept,        \* slept[c]: seconds c has slept since its last cycle's
                  \* work ended (0 once the next cycle begins)
    rpc,          \* the line the main thread is about to execute
    panel,        \* index in Panels of the draw_panel call in progress, or 0
    drawn,        \* what the draw_panel call in progress has decided and drawn
    joined,       \* number of threads run() has joined
    term,         \* screen.getmaxyx(): the window's rows and columns
    given,        \* the arguments of the draw_panel call just made, if the
                  \* last drawing step was one
    calls         \* the addch / addstr calls the last drawing step made

vars ==
    <<running, status, data, spinner_idx, pc, invocation, cycle_data, slept,
      rpc, panel, drawn, joined, term, given, calls>>

collector_vars == <<status, data, pc, invocation, cycle_data, slept>>

render_vars == <<spinner_idx, rpc, panel, drawn, joined>>

frame_vars == <<term, given, calls>>

\* __init__ (lines 24-37): records initialised, running set, threads started.
\* The window is the customary 24 x 80 terminal.
Init ==
    /\ running = TRUE
    /\ status = [m \in Metrics |-> "Initializing..."]
    /\ data = [m \in Metrics |-> None]
    /\ spinner_idx = 0
    /\ pc = [c \in Collectors |-> "while"]
    /\ invocation = [c \in Collectors |-> NoInvocation]
    /\ cycle_data = [c \in Collectors |-> None]
    /\ slept = [c \in Collectors |-> 0]
    /\ rpc = "frame"
    /\ panel = 0
    /\ drawn = NoDraw
    /\ joined = 0
    /\ term = [rows |-> 24, cols |-> 80]
    /\ given = NoArgs
    /\ calls = <<>>

\* ------------------------------------------------------------- collectors

\* LoopTest as if the loop were `while True:`: the stop signal is never read.
LoopTest_IgnoresStop(c) ==
    /\ pc[c] = "while"
    /\ pc' = [pc EXCEPT ![c] = "set_updating"]
    /\ UNCHANGED <<running, status, data, invocation, cycle_data, slept>>
    /\ UNCHANGED <<render_vars, frame_vars>>

\* `while self.running:` (lines 60 and 72).
LoopTest(c) ==
    /\ pc[c] = "while"
    /\ pc' = [pc EXCEPT ![c] = IF running THEN "set_updating" ELSE "done"]
    /\ UNCHANGED <<running, status, data, invocation, cycle_data, slept>>
    /\ UNCHANGED <<render_vars, frame_vars>>

\* SetUpdating as if the collector marked every record of the store, not only
\* its own.
SetUpdating_AllRecords(c) ==
    /\ pc[c] = "set_updating"
    /\ status' = [m \in Metrics |-> "Updating..."]
    /\ cycle_data' = [cycle_data EXCEPT ![c] = data[c]]
    /\ slept' = [slept EXCEPT ![c] = 0]
    /\ pc' = [pc EXCEPT ![c] = "probe"]
    /\ UNCHANGED <<running, data, invocation>>
    /\ UNCHANGED <<render_vars, frame_vars>>

\* `self.<m>_data["status"] = "Updating..."` (lines 61 and 73), then the call
\* of subprocess.run is under way.
SetUpdating(c) ==
    /\ pc[c] = "set_updating"
    /\ status' = [status EXCEPT ![c] = "Updating..."]
    /\ cycle_data' = [cycle_data EXCEPT ![c] = data[c]]
    /\ slept' = [slept EXCEPT ![c] = 0]
    /\ pc' = [pc EXCEPT ![c] = "probe"]
    /\ UNCHANGED <<running, data, invocation>>
    /\ UNCHANGED <<render_vars, frame_vars>>

\* ProbeCompletes as if subprocess.run were called with check=True: a non-zero
\* exit raises CalledProcessError, which the except clause records.
ProbeCompletes_CheckExit(c, res) ==
    /\ pc[c] = "probe"
    /\ invocation' = [invocation EXCEPT ![c] =
           [kind |-> "completed", stdout |-> res.stdout,
            returncode |-> res.returncode, msg |-> ""]]
    /\ IF res.returncode = 0
       THEN /\ data' = [data EXCEPT ![c] = res.stdout]
            /\ pc' = [pc EXCEPT ![c] = "store_ok"]
            /\ UNCHANGED status
       ELSE /\ status' = [status EXCEPT ![c] = ErrorStatus("")]
            /\ pc' = [pc EXCEPT ![c] = "sleep"]
            /\ UNCHANGED data
    /\ UNCHANGED <<running, cycle_data, slept>>
    /\ UNCHANGED <<render_vars, frame_vars>>

\* subprocess.run(...) returns a CompletedProcess (lines 63-64 and 75-76;
\* check=True is not passed, so any exit code returns normally) and
\* `self.<m>_data["data"] = result.stdout` stores its output (lines 65 and
\* 77).  The return of the call touches no shared state, so it is one step
\* with the store that follows it.
ProbeCompletes(c, res) ==
    /\ pc[c] = "probe"
    /\ invocation' = [invocation EXCEPT ![c] =
           [kind |-> "completed", stdout |-> res.stdout,
            returncode |-> res.returncode, msg |-> ""]]
    /\ data' = [data EXCEPT ![c] = res.stdout]
    /\ pc' = [pc EXCEPT ![c] = "store_ok"]
    /\ UNCHANGED <<running, status, cycle_data, slept>>
    /\ UNCHANGED <<render_vars, frame_vars>>

\* StoreOk as if both collectors wrote the status of the bandwidth record.
StoreOk_Shared(c) ==
    /\ pc[c] = "store_ok"
    /\ status' = [status EXCEPT !["bandwidth"] = "OK"]
    /\ pc' = [pc EXCEPT ![c] = "sleep"]
    /\ UNCHANGED <<running, data, invocation, cycle_data, slept>>
    /\ UNCHANGED <<render_vars, frame_vars>>

\* `self.<m>_data["status"] = "OK"` (lines 66 and 78).
StoreOk(c) ==
    /\ pc[c] = "store_ok"
    /\ status' = [status EXCEPT ![c] = "OK"]
    /\ pc' = [pc EXCEPT ![c] = "sleep"]
    /\ UNCHANGED <<running, data, invocation, cycle_data, slept>>
    /\ UNCHANGED <<render_vars, frame_vars>>

\* ProbeRaises as if the except clause also reset the data to None.
ProbeRaises_ClearsData(c, msg) ==
    /\ pc[c] = "probe"
    /\ invocation' = [invocation EXCEPT ![c] =
           [kind |-> "raised", stdout |-> None, returncode |-> 0, msg |-> msg]]
    /\ status' = [status EXCEPT ![c] = ErrorStatus(msg)]
    /\ data' = [data EXCEPT ![c] = None]
    /\ pc' = [pc EXCEPT ![c] = "sleep"]
    /\ UNCHANGED <<running, cycle_data, slept>>
    /\ UNCHANGED <<render_vars, frame_vars>>

\* ProbeRaises as if the exception were not caught: the thread ends.
ProbeRaises_Uncaught(c, msg) ==
    /\ pc[c] = "probe"
    /\ invocation' = [invocation EXCEPT ![c] =
           [kind |-> "raised", stdout |-> None, returncode |-> 0, msg |-> msg]]
    /\ pc' = [pc EXCEPT ![c] = "done"]
    /\ UNCHANGED <<running, status, data, cycle_data, slept>>
    /\ UNCHANGED <<render_vars, frame_vars>>

\* subprocess.run(...) raises (the command cannot be run) and the except
\* clause records it: `self.<m>_data["status"] = f"Error: {str(e)}"` (lines
\* 67-68 and 79-80).  The raise touches no shared state, so it is one step
\* with the store that follows it.
ProbeRaises(c, msg) ==
    /\ pc[c] = "probe"
    /\ invocation' = [invocation EXCEPT ![c] =
           [kind |-> "raised", stdout |-> None, returncode |-> 0, msg |-> msg]]
    /\ status' = [status EXCEPT ![c] = ErrorStatus(msg)]
    /\ pc' = [pc EXCEPT ![c] = "sleep"]
    /\ UNCHANGED <<running, data, cycle_data, slept>>
    /\ UNCHANGED <<render_vars, frame_vars>>

\* `time.sleep(300)` / `time.sleep(5)` (lines 69 and 81): returns when the
\* whole interval has passed, whatever self.running is by then.  The cycle
\* is over: its invocation is forgotten and the next cycle starts from the
\* data the record holds now.
Sleep(c) ==
    /\ pc[c] = "sleep"
    /\ slept' = [slept EXCEPT ![c] = SleepSeconds(c)]
    /\ invocation' = [invocation EXCEPT ![c] = NoInvocation]
    /\ cycle_data' = [cycle_data EXCEPT ![c] = data[c]]
    /\ pc' = [pc EXCEPT ![c] = "while"]
    /\ UNCHANGED <<running, status, data>>
    /\ UNCHANGED <<render_vars, frame_vars>>

\* The subprocess.run call of collector c ends, one way or the other; the
\* external command decides when, and whether at all.
ProbeEnds(c) ==
    \/ \E res \in ProbeResults : ProbeCompletes(c, res)
    \/ \E msg \in ErrorMessages : ProbeRaises(c, msg)

\* One step of collector thread c's own code.
CollectorStep(c) ==
    \/ LoopTest(c)
    \/ SetUpdating(c)
    \/ StoreOk(c)
    \/ Sleep(c)

\* One step of collector thread c (update_bandwidth / update_latency).
Collector(c) ==
    \/ CollectorStep(c)
    \/ ProbeEnds(c)

\* --------------------------------------------------------------- renderer

\* get_spinner (lines 39-42): the glyph at the index, and the index after it.
get_spinner_char(idx) == spinner[idx + 1]

get_spinner_next(idx) == (idx + 1) % Len(spinner)

\* `if data["data"]:` (line 93): None and the empty string are false.
Truthy(d) == d # None /\ d # ""

\* draw_screen up to the first draw_panel call (lines 100-108): clear, size,
\* borders and title; none of it touches the records.
BeginFrame ==
    /\ rpc = "frame"
    /\ rpc' = "line84"
    /\ panel' = 1
    /\ drawn' = [NoDraw EXCEPT !.title = Panels[1]]
    /\ UNCHANGED <<spinner_idx, joined, running>>
    /\ UNCHANGED <<collector_vars, frame_vars>>

\* SpinnerDecision as if get_spinner were called on every draw, whatever the
\* status.
SpinnerDecision_Always ==
    /\ rpc = "line84"
    /\ drawn' = [drawn EXCEPT !.spin = get_spinner_char(spinner_idx)]
    /\ spinner_idx' = get_spinner_next(spinner_idx)
    /\ rpc' = "line85"
    /\ UNCHANGED <<panel, joined, running>>
    /\ UNCHANGED <<collector_vars, frame_vars>>

\* Line 84: read data["status"]; when it is "Updating..." call get_spinner.
SpinnerDecision ==
    /\ rpc = "line84"
    /\ LET m == Panels[panel] IN
       IF status[m] = "Updating..."
       THEN /\ drawn' = [drawn EXCEPT !.spin = get_spinner_char(spinner_idx)]
            /\ spinner_idx' = get_spinner_next(spinner_idx)
       ELSE /\ drawn' = [drawn EXCEPT !.spin = " "]
            /\ UNCHANGED spinner_idx
    /\ rpc' = "line85"
    /\ UNCHANGED <<panel, joined, running>>
    /\ UNCHANGED <<collector_vars, frame_vars>>

\* Line 85: read data["status"] again for the colour of the status tag.
ColorDecision ==
    /\ rpc = "line85"
    /\ drawn' = [drawn EXCEPT !.color =
                    IF status[Panels[panel]] = "OK" THEN "GREEN" ELSE "RED"]
    /\ rpc' = "line90"
    /\ UNCHANGED <<spinner_idx, panel, joined, running>>
    /\ UNCHANGED <<collector_vars, frame_vars>>

\* DrawHeader as if each record had a lock that its collector held during the
\* probe invocation and draw_panel took for its read.
DrawHeader_Locked ==
    /\ rpc = "line90"
    /\ Panels[panel] \in Collectors => pc[Panels[panel]] # "probe"
    /\ drawn' = [drawn EXCEPT !.tag = status[Panels[panel]]]
    /\ rpc' = "line93"
    /\ UNCHANGED <<spinner_idx, panel, joined, running>>
    /\ UNCHANGED <<collector_vars, frame_vars>>

\* Lines 88-90: title and spinner are drawn, then data['status'] is read a
\* third time for the text of the tag.
DrawHeader ==
    /\ rpc = "line90"
    /\ drawn' = [drawn EXCEPT !.tag = status[Panels[panel]]]
    /\ rpc' = "line93"
    /\ UNCHANGED <<spinner_idx, panel, joined, running>>
    /\ UNCHANGED <<collector_vars, frame_vars>>

\* Line 93: `if data["data"]:`.  The locals spinner and status_color were
\* last used by lines 89-90 and are dropped here.
DataTest ==
    /\ rpc = "line93"
    /\ drawn' = [drawn EXCEPT !.has = Truthy(data[Panels[panel]]),
                              !.spin = "", !.color = ""]
    /\ rpc' = "line94"
    /\ UNCHANGED <<spinner_idx, panel, joined, running>>
    /\ UNCHANGED <<collector_vars, frame_vars>>

\* Lines 94-97: data["data"] is read again and its lines are drawn; the call
\* returns.
DrawBody ==
    /\ rpc = "line94"
    /\ drawn' = [drawn EXCEPT !.body =
                    IF drawn.has THEN data[Panels[panel]] ELSE None]
    /\ rpc' = "return"
    /\ UNCHANGED <<spinner_idx, panel, joined, running>>
    /\ UNCHANGED <<collector_vars, frame_vars>>

\* draw_panel has returned: the next call of lines 111-114, or the rest of
\* the frame.
NextPanel ==
    /\ rpc = "return"
    /\ IF panel < Len(Panels)
       THEN /\ panel' = panel + 1
            /\ drawn' = [NoDraw EXCEPT !.title = Panels[panel + 1]]
            /\ rpc' = "line84"
       ELSE /\ panel' = 0
            /\ drawn' = NoDraw
            /\ rpc' = "flush"
    /\ UNCHANGED <<spinner_idx, joined, running>>
    /\ UNCHANGED <<collector_vars, frame_vars>>

\* Lines 117-120: timestamp and screen.refresh().
Flush ==
    /\ rpc = "flush"
    /\ rpc' = "frame_sleep"
    /\ UNCHANGED <<spinner_idx, panel, drawn, joined, running>>
    /\ UNCHANGED <<collector_vars, frame_vars>>

\* Line 137: time.sleep(0.1), then the next iteration of `while True`.
FrameSleep ==
    /\ rpc = "frame_sleep"
    /\ rpc' = "frame"
    /\ UNCHANGED <<spinner_idx, panel, drawn, joined, running>>
    /\ UNCHANGED <<collector_vars, frame_vars>>

\* The main thread is inside the try block of run() (lines 135-137).
InLoop ==
    rpc \in {"frame", "line84", "line85", "line90", "line93", "line94",
             "return", "flush", "frame_sleep"}

\* KeyboardInterrupt raised in the main thread anywhere inside the try block
\* (line 138): the frame in progress is abandoned.
Interrupt ==
    /\ InLoop
    /\ rpc' = "line139"
    /\ panel' = 0
    /\ drawn' = NoDraw
    /\ UNCHANGED <<spinner_idx, joined, running>>
    /\ UNCHANGED <<collector_vars, frame_vars>>

\* SetStop as if the except clause drew one last frame before joining.
SetStop_Redraw ==
    /\ rpc = "line139"
    /\ running' = FALSE
    /\ rpc' = "frame"
    /\ UNCHANGED <<spinner_idx, panel, drawn, joined>>
    /\ UNCHANGED <<collector_vars, frame_vars>>

\* Line 139: self.running = False.
SetStop ==
    /\ rpc = "line139"
    /\ running' = FALSE
    /\ rpc' = "join"
    /\ UNCHANGED <<spinner_idx, panel, drawn, joined>>
    /\ UNCHANGED <<collector_vars, frame_vars>>

\* Join as if thread.join() did not wait for the thread to end.
Join_NoWait ==
    /\ rpc = "join"
    /\ IF joined < Len(Threads)
       THEN /\ joined' = joined + 1
            /\ UNCHANGED rpc
       ELSE /\ rpc' = "returned"
            /\ UNCHANGED joined
    /\ UNCHANGED <<spinner_idx, panel, drawn, running>>
    /\ UNCHANGED <<collector_vars, frame_vars>>

\* Lines 140-141: thread.join() returns once that thread has ended; after the
\* last one run() returns.
Join ==
    /\ rpc = "join"
    /\ IF joined < Len(Threads)
       THEN /\ pc[Threads[joined + 1]] = "done"
            /\ joined' = joined + 1
            /\ UNCHANGED rpc
       ELSE /\ rpc' = "returned"
            /\ UNCHANGED joined
    /\ UNCHANGED <<spinner_idx, panel, drawn, running>>
    /\ UNCHANGED <<collector_vars, frame_vars>>

\* A second KeyboardInterrupt inside the except clause (lines 139-141) is
\* not caught: run() ends with the exception.
InterruptAgain ==
    /\ rpc \in {"line139", "join"}
    /\ rpc' = "raised"
    /\ UNCHANGED <<spinner_idx, panel, drawn, joined, running>>
    /\ UNCHANGED <<collector_vars, frame_vars>>

\* One step of the main thread inside draw_screen / draw_panel.
Draw ==
    \/ BeginFrame
    \/ SpinnerDecision
    \/ ColorDecision
    \/ DrawHeader
    \/ DataTest
    \/ DrawBody
    \/ NextPanel
    \/ Flush

\* One step of the main thread's own code.
MainStep ==
    \/ Draw
    \/ FrameSleep
    \/ SetStop
    \/ Join

\* One step of the main thread (run), the operator's interrupts included.
Render ==
    \/ MainStep
    \/ Interrupt
    \/ InterruptAgain

Next ==
    \/ \E c \in Collectors : Collector(c)
    \/ Render

Spec == Init /\ [][Next]_vars

\* The threads are scheduled fairly: a thread that can take a step of its
\* own code eventually takes it (a time.sleep ends, a join of an ended thread
\* returns).  Nothing is assumed of the external commands or the operator: a
\* probe may never end and an interrupt may never come.
FairSpec ==
    /\ Spec
    /\ WF_vars(MainStep)
    /\ \A c \in Collectors : WF_vars(CollectorStep(c))

\* FairSpec, and every probe invocation eventually ends: the external command
\* returns or the call raises.
FairProbeSpec ==
    /\ FairSpec
    /\ \A c \in Collectors : WF_vars(ProbeEnds(c))

\* ------------------------------------------------------------ one frame

\* The largest window FrameSpec draws on.
MaxRows == 24

MaxCols == 80

\* What screen.getmaxyx() may report (lines 45 and 101).
TerminalSizes == [rows : 1..MaxRows, cols : 1..MaxCols]

\* What a record's data may hold when a panel is drawn: nothing, an empty
\* output, a one-line output, and a report of several lines that ends in a
\* newline, as speedtest-cli --simple prints it.
FrameData ==
    {None, ""} \cup Outputs
        \cup {"Ping: 12.3 ms\nDownload: 94.1 Mbit/s\nUpload: 11.2 Mbit/s\n"}

\* The records draw_panel may be passed for metric m (lines 111-114): any
\* record its collector may have stored by then (lines 61-68), and the
\* initial record of a metric without a collector (lines 30-31).
Records(m) ==
    IF m \in Collectors
    THEN {[status |-> "Initializing...", data |-> None]}
           \cup {[status |-> st, data |-> d] :
                    st \in Statuses \ {"Initializing...", "OK"}, d \in FrameData}
           \cup {[status |-> "OK", data |-> d] : d \in FrameData \ {None}}
    ELSE {[status |-> status[m], data |-> data[m]]}

\* The titles of the four draw_panel calls (lines 111-114).
PanelTitles == <<"Bandwidth", "Latency", "Stability", "Routing">>

\* title of draw_screen (line 106).
Title == "Network Performance Monitor"

\* f"Last update: {timestamp}" with a '%Y-%m-%d %H:%M:%S' timestamp (lines
\* 117-118).
StampText == "Last update: 2026-01-01 00:00:00"

\* The characters that take one cell whatever their name is here: the
\* spinner glyphs and the line-drawing characters of draw_borders.
Glyphs == {spinner[i] : i \in 1..Len(spinner)} \cup {"ACS_HLINE", "ACS_VLINE", "ACS_PLUS"}

CellWidth(text) == IF text \in Glyphs THEN 1 ELSE Len(text)

Min(a, b) == IF a < b THEN a ELSE b

Max(a, b) == IF a > b THEN a ELSE b

\* Python's seq[:k], of a string or a list: the first k elements, and for a
\* negative k all but the last -k.
SliceTo(seq, k) ==
    IF k >= 0
    THEN SubSeq(seq, 1, Min(k, Len(seq)))
    ELSE SubSeq(seq, 1, Max(0, Len(seq) + k))

\* Python's text.split('\n') (line 94).
RECURSIVE SplitLines(_)
SplitLines(text) ==
    IF \E i \in 1..Len(text) : SubSeq(text, i, i) = "\n"
    THEN LET i == CHOOSE j \in 1..Len(text) :
                      /\ SubSeq(text, j, j) = "\n"
                      /\ \A k \in 1..(j - 1) : SubSeq(text, k, k) # "\n"
         IN  <<SubSeq(text, 1, i - 1)>> \o SplitLines(SubSeq(text, i + 1, Len(text)))
    ELSE <<text>>

\* mid_y, mid_x = max_y // 2, max_x // 2 (lines 46 and 102).
mid_y == term.rows \div 2

mid_x == term.cols \div 2

\* One addch / addstr call: where it starts writing, and what.
Call(y, x, text) == [y |-> y, x |-> x, text |-> text]

\* An addstr call without coordinates writes at the cursor, which the call
\* before it left after the last cell it wrote, wrapping at the right margin.
After(call) ==
    LET q == call.y * term.cols + call.x + CellWidth(call.text)
    IN  [y |-> q \div term.cols, x |-> q % term.cols]

\* curses rejects a call that starts outside the window, and one whose text
\* reaches the window's last cell (the cursor cannot advance past it): the
\* call raises curses.error.
Raises(call) ==
    \/ call.y < 0 \/ call.y >= term.rows
    \/ call.x < 0 \/ call.x >= term.cols
    \/ /\ CellWidth(call.text) > 0
       /\ call.y * term.cols + call.x + CellWidth(call.text) >= term.rows * term.cols

\* The cells of the window a call writes: none when it starts outside, else
\* the cells that follow its start, row after row, up to the last cell.
Cells(call) ==
    IF \/ call.y < 0 \/ call.y >= term.rows
       \/ call.x < 0 \/ call.x >= term.cols
    THEN {}
    ELSE LET p == call.y * term.cols + call.x
             last == Min(p + CellWidth(call.text), term.rows * term.cols) - 1
         IN  {<<q \div term.cols, q % term.cols>> : q \in p..last}

\* The index of the first call of cs that raises, or 0.
FirstRaise(cs) ==
    IF \E i \in 1..Len(cs) : Raises(cs[i])
    THEN CHOOSE i \in 1..Len(cs) :
             Raises(cs[i]) /\ \A j \in 1..(i - 1) : ~Raises(cs[j])
    ELSE 0

\* The calls of cs that are made: all of them, or those up to the one that
\* raises, since nothing in draw_screen or run catches curses.error.
Made(cs) == IF FirstRaise(cs) = 0 THEN cs ELSE SubSeq(cs, 1, FirstRaise(cs))

\* draw_borders (lines 44-57): the horizontal line, the vertical line, the
\* intersection.
BorderCalls ==
    [x \in 1..term.cols |-> Call(mid_y, x - 1, "ACS_HLINE")]
        \o [y \in 1..term.rows |-> Call(y - 1, mid_x, "ACS_VLINE")]
        \o <<Call(mid_y, mid_x, "ACS_PLUS")>>

\* Line 108: the title, centred.
TitleCalls == <<Call(0, (term.cols - Len(Title)) \div 2, Title)>>

\* PanelRect as if each panel were as wide as half the window.
PanelRect_HalfWidth(k) ==
    [y |-> IF k <= 2 THEN 2 ELSE mid_y + 1,
     x |-> IF k \in {1, 3} THEN 1 ELSE mid_x + 1,
     height |-> mid_y - 1,
     width |-> mid_x]

\* The y, x, height, width of the k-th draw_panel call (lines 111-114).
PanelRect(k) ==
    [y |-> IF k <= 2 THEN 2 ELSE mid_y + 1,
     x |-> IF k \in {1, 3} THEN 1 ELSE mid_x + 1,
     height |-> mid_y - 1,
     width |-> mid_x - 1]

\* ClipLine as if the line were cut to the width of the panel.
ClipLine_FullWidth(line, width) == SliceTo(line, width)

\* line[:width-2] (line 97).
ClipLine(line, width) == SliceTo(line, width - 2)

\* Lines 93-97 of draw_panel: the lines of the data that are drawn, each
\* with the row it is drawn on.
BodyCalls(d, r) ==
    IF Truthy(d)
    THEN LET lines == SliceTo(SplitLines(d), r.height - 2)
             shown == {i \in 1..Len(lines) : r.y + (i - 1) + 1 < r.height}
             nth(n) == CHOOSE i \in shown :
                           Cardinality({j \in shown : j <= i}) = n
         IN  [n \in 1..Cardinality(shown) |->
                 Call(r.y + (nth(n) - 1) + 1, r.x, ClipLine(lines[nth(n)], r.width))]
    ELSE <<>>

\* draw_panel (lines 83-97) with the spinner text of line 84: the three
\* addstr calls of the header, then the data lines.
PanelCalls(title, rec, spin, r) ==
    LET head == Call(r.y, r.x, "=== " \o title \o " === ")
        glyph == Call(After(head).y, After(head).x, spin)
        tag == Call(After(glyph).y, After(glyph).x, "[" \o rec.status \o "]")
    IN  <<head, glyph, tag>> \o BodyCalls(rec.data, r)

\* Line 118: the timestamp on the last row.
StampCalls == <<Call(term.rows - 1, 1, StampText)>>

\* The main thread's variables a drawing step of FrameSpec leaves alone, and
\* all the collectors' variables.
still_vars == <<running, drawn, joined, collector_vars>>

\* __init__, on a window of any size.
FrameInit ==
    /\ running = TRUE
    /\ status = [m \in Metrics |-> "Initializing..."]
    /\ data = [m \in Metrics |-> None]
    /\ spinner_idx = 0
    /\ pc = [c \in Collectors |-> "while"]
    /\ invocation = [c \in Collectors |-> NoInvocation]
    /\ cycle_data = [c \in Collectors |-> None]
    /\ slept = [c \in Collectors |-> 0]
    /\ rpc = "frame"
    /\ panel = 0
    /\ drawn = NoDraw
    /\ joined = 0
    /\ term \in TerminalSizes
    /\ given = NoArgs
    /\ calls = <<>>

\* Lines 100-104: clear, getmaxyx, draw_borders.
DrawBordersStep ==
    /\ rpc = "frame"
    /\ calls' = Made(BorderCalls)
    /\ rpc' = IF FirstRaise(BorderCalls) = 0 THEN "line108" ELSE "error"
    /\ UNCHANGED <<spinner_idx, panel, given, term>>
    /\ UNCHANGED still_vars

\* Lines 106-108: the title.
DrawTitleStep ==
    /\ rpc = "line108"
    /\ calls' = Made(TitleCalls)
    /\ IF FirstRaise(TitleCalls) = 0
       THEN rpc' = "line111" /\ panel' = 1
       ELSE rpc' = "error" /\ UNCHANGED panel
    /\ UNCHANGED <<spinner_idx, given, term>>
    /\ UNCHANGED still_vars

\* One of the draw_panel calls of lines 111-114, as a whole: the record is
\* read, the spinner is advanced when the status is Updating (line 84), the
\* header and the data lines are drawn.
DrawPanelStep ==
    /\ rpc = "line111"
    /\ \E rec \in Records(Panels[panel]) :
          LET r == PanelRect(panel)
              updating == rec.status = "Updating..."
              spin == IF updating THEN get_spinner_char(spinner_idx) ELSE " "
              cs == PanelCalls(PanelTitles[panel], rec, spin, r)
          IN  /\ spinner_idx' = IF updating THEN get_spinner_next(spinner_idx)
                                            ELSE spinner_idx
              /\ given' = [title |-> PanelTitles[panel], status |-> rec.status,
                           data |-> rec.data, y |-> r.y, x |-> r.x,
                           height |-> r.height, width |-> r.width]
              /\ calls' = Made(cs)
              /\ IF FirstRaise(cs) # 0
                 THEN rpc' = "error" /\ panel' = 0
                 ELSE IF panel < Len(Panels)
                      THEN rpc' = "line111" /\ panel' = panel + 1
                      ELSE rpc' = "line118" /\ panel' = 0
    /\ UNCHANGED term
    /\ UNCHANGED still_vars

\* Lines 117-118: the timestamp.
DrawStampStep ==
    /\ rpc = "line118"
    /\ calls' = Made(StampCalls)
    /\ given' = NoArgs
    /\ rpc' = IF FirstRaise(StampCalls) = 0 THEN "line120" ELSE "error"
    /\ UNCHANGED <<spinner_idx, panel, term>>
    /\ UNCHANGED still_vars

\* Line 120: screen.refresh(); the frame is complete.
RefreshStep ==
    /\ rpc = "line120"
    /\ calls' = <<>>
    /\ rpc' = "frame_sleep"
    /\ UNCHANGED <<spinner_idx, panel, given, term>>
    /\ UNCHANGED still_vars

FrameNext ==
    \/ DrawBordersStep
    \/ DrawTitleStep
    \/ DrawPanelStep
    \/ DrawStampStep
    \/ RefreshStep

\* One call of draw_screen, on a window of any size and with any records.
FrameSpec == FrameInit /\ [][FrameNext]_vars

\* ------------------------------------------------------------- properties

\* The metric whose panel the draw_panel call in progress draws.
Drawing == Panels[panel]

\* A (status, data) pair has the shape of a record written as a whole: the
\* initial record has no data and an OK record carries a probe output.
WholeShape(s, d) ==
    /\ s = "Initializing..." => d = None
    /\ s = "OK" => d \in Outputs

\* C1: record atomicity.  Every record in the store is one the collector's
\* cycle writes as a whole (initial; Updating or Error with the data the
\* cycle began with; OK with the output of the cycle's invocation), and the
\* (status, data) pair a panel draw has read is such a record too.
C1_RecordAtomicity ==
    /\ \A c \in Collectors :
          /\ status[c] = "Initializing..." => data[c] = None
          /\ status[c] = "Updating..." => data[c] = cycle_data[c]
          /\ status[c] \in {ErrorStatus(m) : m \in ErrorMessages}
                => data[c] = cycle_data[c]
          /\ status[c] = "OK" => data[c] \in Outputs
    /\ rpc = "return" => WholeShape(drawn.tag, drawn.body)

\* C2: while a record's status is Updating its data is the data the record
\* held when the current update cycle began.
C2_UpdatingKeepsData ==
    \A c \in Collectors :
        status[c] = "Updating..." => data[c] = cycle_data[c]

\* C3: per-panel snapshot.  The spinner glyph, the tag colour, the tag text
\* and the body of one panel draw all come from one snapshot of the record:
\* a glyph is drawn exactly when the tag reads Updating, the colour is green
\* exactly when the tag reads OK, and the tag and the body form one record.
C3_PanelSnapshot ==
    /\ rpc \in {"line90", "line93"}
          => (drawn.spin # " " => drawn.color = "RED")
    /\ rpc = "line93"
          => /\ (drawn.spin # " ") <=> (drawn.tag = "Updating...")
             /\ (drawn.color = "GREEN") <=> (drawn.tag = "OK")
    /\ rpc = "return" => WholeShape(drawn.tag, drawn.body)

\* C4: shutdown latency is independent of the sleep intervals.  A collector
\* that leaves its inter-cycle sleep after the stop signal was set has slept
\* less than its interval (300 s for bandwidth, 5 s for latency).
C4_InterruptibleSleep ==
    [][\A c \in Collectors :
          (pc[c] = "sleep" /\ ~running /\ pc'[c] # "sleep")
             => slept'[c] < SleepSeconds(c)]_vars

\* C5: failed cycle.  When the probe invocation of a cycle has raised, at
\* the end of the cycle the status is the Error status carrying the failure
\* message and the data is what it was when the cycle began.
C5_FailedCycle ==
    \A c \in Collectors :
        (pc[c] = "sleep" /\ invocation[c].kind = "raised") =>
            /\ status[c] = ErrorStatus(invocation[c].msg)
            /\ data[c] = cycle_data[c]

\* A failed cycle has ended and the record still holds the output of an
\* earlier successful cycle.
C5_Witness ==
    \E c \in Collectors :
        /\ pc[c] = "sleep"
        /\ invocation[c].kind = "raised"
        /\ status[c] \in {ErrorStatus(m) : m \in ErrorMessages}
        /\ data[c] \in Outputs

\* C6: successful cycle.  When the probe invocation of a cycle has completed,
\* whatever its exit code, at the end of the cycle the status is OK and the
\* data is the raw output of that invocation.
C6_SuccessfulCycle ==
    \A c \in Collectors :
        (pc[c] = "sleep" /\ invocation[c].kind = "completed") =>
            /\ status[c] = "OK"
            /\ data[c] = invocation[c].stdout

\* A cycle whose probe exited non-zero has ended, and its output has replaced
\* the different output of an earlier cycle.
C6_Witness ==
    \E c \in Collectors :
        /\ pc[c] = "sleep"
        /\ invocation[c].kind = "completed"
        /\ invocation[c].returncode # 0
        /\ cycle_data[c] \in Outputs
        /\ cycle_data[c] # data[c]
        /\ status[c] = "OK"

\* C7: collector independence.  Until an interrupt comes the render loop
\* completes frames again and again, and every collector completes cycles
\* again and again unless its own probe invocation never ends, whatever the
\* other collector does (its probe may hang for ever).
C7_Independence ==
    \/ <>(~InLoop)
    \/ /\ []<>(rpc = "frame_sleep")
       /\ \A c \in Collectors :
              \/ <>[](pc[c] = "probe")
              \/ []<>(pc[c] = "sleep")

\* The bandwidth probe of the first cycle has still not ended, while the
\* latency collector has finished its second cycle or a later one and the
\* render loop has flushed a frame that shows latency data.
C7_Witness ==
    /\ pc["bandwidth"] = "probe"
    /\ data["bandwidth"] = None
    /\ slept["bandwidth"] = 0
    /\ pc["latency"] = "sleep"
    /\ status["latency"] = "OK"
    /\ cycle_data["latency"] \in Outputs
    /\ rpc = "frame_sleep"
    /\ running

\* C8: failure containment.  The step that records a failure changes only
\* the status of that metric's record, stops no thread and leads to the
\* sleep; the sleep lasts the fixed interval and leads back to the loop test,
\* which begins another cycle unless the stop signal is set; a collector at
\* any of these lines can always take its step; and no collector has ended
\* while the stop signal is not set.
C8_FailureContainment ==
    /\ [][\A c \in Collectors :
             (pc[c] = "probe" /\ invocation'[c].kind = "raised") =>
                 /\ pc'[c] = "sleep"
                 /\ status'[c] = ErrorStatus(invocation'[c].msg)
                 /\ data' = data
                 /\ \A m \in Metrics \ {c} : status'[m] = status[m]
                 /\ \A o \in Collectors \ {c} : pc'[o] = pc[o]
                 /\ rpc' = rpc
                 /\ running' = running]_vars
    /\ [][\A c \in Collectors :
             /\ (pc[c] = "sleep" /\ pc'[c] # "sleep") =>
                   /\ pc'[c] = "while"
                   /\ slept'[c] = SleepSeconds(c)
             /\ (pc[c] = "while" /\ pc'[c] # "while" /\ running) =>
                   pc'[c] = "set_updating"]_vars
    /\ [](\A c \in Collectors :
             /\ pc[c] \in {"sleep", "while", "set_updating"}
                   => ENABLED CollectorStep(c)
             /\ pc[c] = "done" => ~running)

\* After a failed cycle and its sleep a collector is beginning its next
\* cycle, the record still showing the failure, while the other collector
\* and the render loop are at work.
C8_Witness ==
    \E c \in Collectors :
        /\ pc[c] = "set_updating"
        /\ status[c] \in {ErrorStatus(m) : m \in ErrorMessages}
        /\ slept[c] = SleepSeconds(c)
        /\ \E o \in Collectors \ {c} : pc[o] = "store_ok"
        /\ rpc = "line90"

\* C9: shutdown ordering.  run() has returned through the interrupt path
\* only with the stop signal set and every started collector terminated.
C9_ShutdownOrdering ==
    rpc = "returned" =>
        /\ ~running
        /\ \A c \in Collectors : pc[c] = "done"

\* run() has returned after an interrupt, and a collector that was stopped
\* had written a record before.
C9_Witness ==
    /\ rpc = "returned"
    /\ joined = Len(Threads)
    /\ \E c \in Collectors : status[c] # "Initializing..."

\* C10: spinner.  A panel draw that observes Updating at line 84 advances the
\* index by exactly 1 modulo the number of frames, a draw that observes
\* another status leaves it unchanged, no other step changes it, and the
\* index stays in 0..9.
C10_Spinner ==
    /\ [][/\ (rpc = "line84" /\ rpc' = "line85" /\ status[Drawing] = "Updating...")
               => spinner_idx' = (spinner_idx + 1) % 10
          /\ (rpc = "line84" /\ rpc' = "line85" /\ status[Drawing] # "Updating...")
               => spinner_idx' = spinner_idx
          /\ ~(rpc = "line84" /\ rpc' = "line85")
               => spinner_idx' = spinner_idx]_vars
    /\ [](spinner_idx \in 0..9)

\* The index has wrapped around: the last glyph was drawn and the index is
\* back at 0.
C10_Witness ==
    /\ rpc = "line85"
    /\ drawn.spin = spinner[10]
    /\ spinner_idx = 0

\* The rectangle of a draw_panel call: rows [y, y + height) and columns
\* [x, x + width).
InRect(cell, r) ==
    /\ cell[1] >= r.y /\ cell[1] < r.y + r.height
    /\ cell[2] >= r.x /\ cell[2] < r.x + r.width

\* Two rectangles share no cell.
Disjoint(a, b) ==
    \/ a.height <= 0 \/ a.width <= 0 \/ b.height <= 0 \/ b.width <= 0
    \/ a.y + a.height <= b.y \/ b.y + b.height <= a.y
    \/ a.x + a.width <= b.x \/ b.x + b.width <= a.x

\* The last drawing step was a draw_panel call.
PanelDrawn == given # NoArgs

\* The lines of the data the draw_panel call just made was given.
GivenLines == IF Truthy(given.data) THEN SplitLines(given.data) ELSE <<>>

\* The calls the draw_panel call just made after the three of its header.
BodyMade == SubSeq(calls, 4, Len(calls))

\* C11: layout.  On a window of at least 4 rows and 4 columns the four
\* rectangles passed to draw_panel have non-negative height and width, lie
\* inside rows 0..H-1 and columns 0..W-1, and are pairwise disjoint; and the
\* rectangle of the draw_panel call just made is the one of its panel.
C11_Layout ==
    (term.rows >= 4 /\ term.cols >= 4) =>
        /\ \A k \in 1..Len(Panels) :
              /\ PanelRect(k).height >= 0 /\ PanelRect(k).width >= 0
              /\ PanelRect(k).y >= 0 /\ PanelRect(k).x >= 0
              /\ PanelRect(k).y + PanelRect(k).height <= term.rows
              /\ PanelRect(k).x + PanelRect(k).width <= term.cols
        /\ \A k, j \in 1..Len(Panels) :
              k # j => Disjoint(PanelRect(k), PanelRect(j))
        /\ PanelDrawn =>
              \E k \in 1..Len(Panels) :
                  /\ PanelTitles[k] = given.title
                  /\ PanelRect(k) = [y |-> given.y, x |-> given.x,
                                     height |-> given.height, width |-> given.width]

\* The fourth panel has been drawn on a window with an even number of
\* columns and an odd number of rows, where the right-hand panels end at the
\* last column.
C11_Witness ==
    /\ rpc = "line118"
    /\ given.title = "Routing"
    /\ term.rows >= 4 /\ term.rows % 2 = 1
    /\ term.cols >= 4 /\ term.cols % 2 = 0
    /\ given.x + given.width = term.cols

\* C12: panel bounds.  Every cell a draw_panel call writes, header and data
\* lines alike, lies inside the rectangle the call was given.
C12_PanelBounds ==
    PanelDrawn =>
        \A i \in 1..Len(calls) :
            \A cell \in Cells(calls[i]) :
                InRect(cell, given)

\* C13: data rows.  A draw_panel call that completes, given data of n lines,
\* draws exactly min(n, height - 2) of them (none when height - 2 <= 0), in
\* order, on consecutive rows from y + 1, at column x.
C13_DataRows ==
    (PanelDrawn /\ rpc # "error") =>
        LET n == Min(Len(GivenLines), Max(0, given.height - 2))
        IN  /\ Len(BodyMade) = n
            /\ \A i \in 1..Min(n, Len(BodyMade)) :
                  /\ BodyMade[i].y = given.y + i
                  /\ BodyMade[i].x = given.x
                  /\ BodyMade[i].text =
                        SubSeq(GivenLines[i], 1, Len(BodyMade[i].text))

\* C14: no drawing call of a frame raises, on a window of any size: the
\* frame is never ended by curses.error.
C14_NoDrawError == rpc # "error"

C16_ShutdownTerminates ==
    /\ []<>(rpc \notin {"line139", "join"})
    /\ [](rpc = "returned" => (~running /\ \A c \in Collectors : pc[c] = "done"))

\* run() has returned after collectors that had completed a probe and slept
\* their whole interval saw the stop signal and terminated.
C16_Witness ==
    /\ rpc = "returned"
    /\ \A c \in Collectors :
          /\ pc[c] = "done"
          /\ status[c] = "OK"
          /\ slept[c] = SleepSeconds(c)

\* C17: single writer.  A step of a collector changes no record but its own
\* and leaves the spinner index alone; a step of the main thread changes no
\* record; and a record changes only in a step of its own collector.
C17_SingleWriter ==
    [][/\ \A c \in Collectors :
             pc'[c] # pc[c] =>
                 /\ \A m \in Metrics \ {c} :
                        status'[m] = status[m] /\ data'[m] = data[m]
                 /\ spinner_idx' = spinner_idx
       /\ (rpc' # rpc \/ joined' # joined \/ panel' # panel \/ drawn' # drawn)
             => (status' = status /\ data' = data)
       /\ \A m \in Metrics :
             (status'[m] # status[m] \/ data'[m] # data[m])
                 => (m \in Collectors /\ pc'[m] # pc[m])]_vars

\* Both collectors have written their records, each differently, and the
\* main thread has advanced the spinner index, in the middle of a panel draw.
C17_Witness ==
    /\ status["bandwidth"] = "OK"
    /\ status["latency"] \in {ErrorStatus(m) : m \in ErrorMessages}
    /\ data["bandwidth"] \in Outputs
    /\ data["latency"] = None
    /\ spinner_idx > 0
    /\ rpc = "line93"

\* C18: the records of the metrics no collector is started for (stability,
\* routing, protocol) keep the status Initializing and no data.
C18_UncollectedUnchanged ==
    \A m \in Metrics \ Collectors :
        status[m] = "Initializing..." /\ data[m] = None

\* Every collector has replaced its own initial record, and the panel of an
\* uncollected metric is being drawn with its initial record.
C18_Witness ==
    /\ \A c \in Collectors : status[c] # "Initializing..." /\ data[c] # None
    /\ panel > 0
    /\ Panels[panel] \notin Collectors
    /\ rpc = "line93"
    /\ drawn.tag = "Initializing..."

\* C19: once the main thread has left the try block of run() for the except
\* clause it draws nothing more: it never re-enters draw_screen, no panel
\* draw is in progress, and the spinner index stays as it is, whatever the
\* collectors still write.
C19_NoFrameAfterInterrupt ==
    /\ [][~InLoop =>
             /\ rpc' \notin {"frame", "line84", "line85", "line90", "line93",
                             "line94", "return", "flush", "frame_sleep"}
             /\ spinner_idx' = spinner_idx
             /\ panel' = panel
             /\ drawn' = drawn]_vars
    /\ [](~InLoop => (panel = 0 /\ drawn = NoDraw))

\* The stop signal is set and the main thread waits in join while a collector
\* whose probe has just returned is about to write its status.
C19_Witness ==
    /\ rpc = "join"
    /\ ~running
    /\ \E c \in Collectors : pc[c] = "store_ok" /\ data[c] \in Outputs

====
